---- MODULE Spec2Model ----
(***************************************************************************)
(* A model of kcc-go's SOAP client (fakesoap.go): the transport factory    *)
(* NewSOAPClient, the two DoRequest implementations (HTTP and pooled unix  *)
(* socket), and the envelope codec soapEnvelope / parseSOAPResponse.       *)
(*                                                                         *)
(* Spec      : one client built by NewSOAPClient, used by NumReq           *)
(*             concurrent callers of DoRequest.                            *)
(* SpecCtx   : Spec with callers that cancel their contexts.               *)
(* SpecParse : parseSOAPResponse applied to bounded XML token streams.     *)
(* SpecWrap  : soapEnvelope followed by parseSOAPResponse on bounded       *)
(*             payloads.                                                   *)
(* SpecServe : Server.Serve of cmd/kuserd with its session refresh         *)
(*             goroutine, under fair scheduling of the goroutines.         *)
(*                                                                         *)
(* The connection pool (github.com/eternnoir/gncp) is modelled by its      *)
(* contract: acquire hands out an idle connection or dials one while the   *)
(* capacity allows, Close on a pooled connection returns it to the idle    *)
(* set, Remove closes it and frees its place.                              *)
(***************************************************************************)
EXTENDS Integers, Sequences, FiniteSets, TLC

(* ------------------------------ bounds --------------------------------- *)

\* Number of concurrent DoRequest calls.
NumReq == 2

\* Pool capacity handed to gncp.NewPool (fakesoap.go:136), scaled down.
DefaultUnixMaxConnections == 1

\* Number of connections the dialer may create in one behaviour.
MaxDials == 3

\* Longest XML token stream handed to parseSOAPResponse.
MaxTokens == 4

\* Number of sessions NewSession may create in one behaviour of Serve.
MaxSessions == 2

(* ------------------------- program constants --------------------------- *)

\* http.StatusOK
StatusOK == 200

Reqs == 1..NumReq
Conns == 1..MaxDials
NoConn == 0

\* Capacities of the channels Server.Serve makes.
ErrChCap == 2
RefreshChCap == 1

Sessions == 1..MaxSessions
NilSession == 0

(* ======================= XML token streams ============================= *)
(* A document is the sequence of tokens encoding/xml's Decoder.Token       *)
(* yields for it.  "bad" stands for bytes the tokenizer rejects.           *)

Names == { [prefix |-> "SOAP-ENV", local |-> "Body"],
           [prefix |-> "",         local |-> "Body"],
           [prefix |-> "",         local |-> "body"],
           [prefix |-> "ns",       local |-> "a"] }

StartTok(n) == [kind |-> "start", name |-> n]
EndTok(n)   == [kind |-> "end",   name |-> n]
CharTok     == [kind |-> "chardata", name |-> [prefix |-> "", local |-> ""]]
ProcTok     == [kind |-> "procinst", name |-> [prefix |-> "", local |-> "xml"]]
BadTok      == [kind |-> "bad",      name |-> [prefix |-> "", local |-> ""]]

Tokens == {StartTok(n) : n \in Names} \cup {EndTok(n) : n \in Names}
            \cup {CharTok, BadTok}

Docs == UNION { [1..n -> Tokens] : n \in 0..MaxTokens }

\* soapHeader / soapFooter as the tokens the decoder reads from them.
EnvelopeName == [prefix |-> "SOAP-ENV", local |-> "Envelope"]
BodyName     == [prefix |-> "SOAP-ENV", local |-> "Body"]
soapHeader   == << ProcTok, CharTok, StartTok(EnvelopeName), StartTok(BodyName) >>
soapFooter   == << EndTok(BodyName), EndTok(EnvelopeName) >>

\* soapEnvelope: header, payload, footer written to one buffer.
soapEnvelope(payload) == soapHeader \o payload \o soapFooter

(* xml.Decoder.Token at position pos with the open elements in stack (top  *)
(* last): the token, or nil on end of input, on rejected bytes, and on an  *)
(* end element that does not close the innermost open element.             *)
NilTok == [kind |-> "nil", name |-> [prefix |-> "", local |-> ""]]

DecoderToken(doc, pos, stack) ==
    IF pos > Len(doc) THEN NilTok
    ELSE LET t == doc[pos] IN
         CASE t.kind = "bad" -> NilTok
           [] t.kind = "end" ->
                IF stack # << >> /\ stack[Len(stack)] = t.name THEN t ELSE NilTok
           [] OTHER -> t

\* The decoder's element stack after it returned token t.
DecoderPush(stack, t) ==
    CASE t.kind = "start" -> Append(stack, t.name)
      [] t.kind = "end"   -> SubSeq(stack, 1, Len(stack) - 1)
      [] OTHER            -> stack

NoValue == << >>

\* Error values: a message and, for a status error, the status code.
MkErr(m, n)  == [msg |-> m, code |-> n]
ErrNone      == MkErr("nil", 0)
ErrUnmarshal == MkErr("failed to unmarshal SOAP response body", 0)
ErrSyntax    == MkErr("xml syntax error", 0)
NotParsed    == [err |-> MkErr("none", 0), elem |-> 0, value |-> NoValue,
                 partial |-> FALSE, stop |-> 0]

(* Decoder.DecodeElement(v, &se): se is doc[from], already read, and depth *)
(* is the stack height with se pushed.  Reads up to the end element that   *)
(* closes se and stores the element in v; a token error inside the element *)
(* is returned and leaves v partly written.                                *)
RECURSIVE DecodeElement(_, _, _, _, _)
DecodeElement(doc, from, pos, stack, depth) ==
    LET t == DecoderToken(doc, pos, stack) IN
    IF t = NilTok
    THEN [err |-> ErrSyntax, elem |-> from, value |-> NoValue,
          partial |-> TRUE, stop |-> pos]
    ELSE IF t.kind = "end" /\ Len(stack) = depth
    THEN [err |-> ErrNone, elem |-> from, value |-> SubSeq(doc, from, pos),
          partial |-> FALSE, stop |-> pos]
    ELSE DecodeElement(doc, from, pos + 1, DecoderPush(stack, t), depth)

(* The token loop of parseSOAPResponse from position pos.                  *)
RECURSIVE parseLoop(_, _, _, _)
parseLoop(doc, pos, stack, match) ==
    LET t == DecoderToken(doc, pos, stack) IN
    IF t = NilTok
    THEN [err |-> ErrUnmarshal, elem |-> 0, value |-> NoValue,
          partial |-> FALSE, stop |-> pos]
    ELSE IF t.kind = "start" /\ match
    THEN DecodeElement(doc, pos, pos + 1, DecoderPush(stack, t), Len(stack) + 1)
    ELSE parseLoop(doc, pos + 1, DecoderPush(stack, t),
                   match \/ (t.kind = "start" /\ t.name.local = "Body"))

\* parseSOAPResponse comparing the local name with Body whatever the case.
RECURSIVE parseLoop_AnyCase(_, _, _, _)
parseLoop_AnyCase(doc, pos, stack, match) ==
    LET t == DecoderToken(doc, pos, stack) IN
    IF t = NilTok
    THEN [err |-> ErrUnmarshal, elem |-> 0, value |-> NoValue,
          partial |-> FALSE, stop |-> pos]
    ELSE IF t.kind = "start" /\ match
    THEN DecodeElement(doc, pos, pos + 1, DecoderPush(stack, t), Len(stack) + 1)
    ELSE parseLoop_AnyCase(doc, pos + 1, DecoderPush(stack, t),
             match \/ (t.kind = "start" /\ t.name.local \in {"Body", "body"}))

parseSOAPResponse_AnyCase(doc) == parseLoop_AnyCase(doc, 1, << >>, FALSE)

\* parseSOAPResponse testing the name for Body before it tests match, so
\* that a start element named Body is never the one decoded.
RECURSIVE parseLoop_BodyFirst(_, _, _, _)
parseLoop_BodyFirst(doc, pos, stack, match) ==
    LET t == DecoderToken(doc, pos, stack) IN
    IF t = NilTok
    THEN [err |-> ErrUnmarshal, elem |-> 0, value |-> NoValue,
          partial |-> FALSE, stop |-> pos]
    ELSE IF t.kind = "start" /\ match /\ t.name.local # "Body"
    THEN DecodeElement(doc, pos, pos + 1, DecoderPush(stack, t), Len(stack) + 1)
    ELSE parseLoop_BodyFirst(doc, pos + 1, DecoderPush(stack, t),
             match \/ (t.kind = "start" /\ t.name.local = "Body"))

parseSOAPResponse_BodyFirst(doc) == parseLoop_BodyFirst(doc, 1, << >>, FALSE)

\* parseSOAPResponse(data, v) on the token stream doc.
parseSOAPResponse(doc) == parseLoop(doc, 1, << >>, FALSE)

(* ========================= NewSOAPClient =============================== *)

NilURI   == [nil |-> TRUE]
UnsetURI == [unset |-> TRUE]

MkURI(s, h, p) == [nil |-> FALSE, scheme |-> s, host |-> h, path |-> p]

\* The URIs handed to NewSOAPClient (paths are empty or start with "/").
URIs == { NilURI,
          MkURI("http",  "127.0.0.1:236", ""),
          MkURI("https", "kopano.local",  "/soap"),
          MkURI("file",  "",              "/run/kopano/server.sock"),
          MkURI("ftp",   "kopano.local",  "/soap"),
          MkURI("unix",  "",              "/run/kopano/server.sock"),
          MkURI("",      "",              "/run/kopano/server.sock") }

\* The default URI parsed when uri is nil.
DefaultURI == MkURI("http", "127.0.0.1:236", "")

\* url.URL.String for a URL made of scheme, host and path.
URIString(u) ==
    (IF u.scheme # "" THEN u.scheme \o ":" ELSE "")
    \o (IF (u.scheme # "" \/ u.host # "") /\ (u.host # "" \/ u.path # "")
        THEN "//" ELSE "")
    \o u.host \o u.path

NoPool == [made |-> FALSE, idle |-> {}, total |-> 0, cap |-> 0]

\* gncp.NewPool(minConn, maxConn, creator) as called with minConn = 0: an
\* empty pool of capacity maxConn, connections being dialed on demand.
NewPool(minConn, maxConn) ==
    IF minConn > maxConn \/ minConn < 0 \/ maxConn <= 0
    THEN [err |-> MkErr("pool bounds", 0), pool |-> NoPool]
    ELSE [err |-> ErrNone,
          pool |-> [made |-> TRUE, idle |-> {}, total |-> minConn, cap |-> maxConn]]

NoClient == [kind |-> "none", Client |-> "", URI |-> "", Dialer |-> "",
             Path |-> "", err |-> ErrNone]

ErrScheme(s) == MkErr("invalid scheme '" \o s \o "' for SOAP client", 0)

\* NewSOAPClient_FileByPath: dispatches on the path as well as on the scheme.
NewSOAPClient_FileByPath(uri) ==
    LET u == IF uri = NilURI THEN DefaultURI ELSE uri
        p == NewPool(0, DefaultUnixMaxConnections)
    IN  CASE u.scheme \in {"https", "http"} ->
               [client |-> [NoClient EXCEPT !.kind = "http",
                                            !.Client = "DefaultHTTPClient",
                                            !.URI = URIString(u)],
                pool |-> NoPool]
          [] u.scheme = "file" \/ (u.scheme = "" /\ u.path # "") ->
               [client |-> [NoClient EXCEPT !.kind = "socket",
                                            !.Dialer = "DefaultUnixDialer",
                                            !.Path = u.path],
                pool |-> p.pool]
          [] OTHER ->
               [client |-> [NoClient EXCEPT !.kind = "error",
                                            !.err = ErrScheme(u.scheme)],
                pool |-> NoPool]

\* NewSOAPClient(uri): the client and, for a socket client, its pool.
NewSOAPClient(uri) ==
    LET u == IF uri = NilURI THEN DefaultURI ELSE uri
        p == NewPool(0, DefaultUnixMaxConnections)
    IN  CASE u.scheme \in {"https", "http"} ->
               [client |-> [NoClient EXCEPT !.kind = "http",
                                            !.Client = "DefaultHTTPClient",
                                            !.URI = URIString(u)],
                pool |-> NoPool]
          [] u.scheme = "file" ->
               IF p.err # ErrNone
               THEN [client |-> [NoClient EXCEPT !.kind = "error", !.err = p.err],
                     pool |-> NoPool]
               ELSE [client |-> [NoClient EXCEPT !.kind = "socket",
                                                 !.Dialer = "DefaultUnixDialer",
                                                 !.Path = u.path],
                     pool |-> p.pool]
          [] OTHER ->
               [client |-> [NoClient EXCEPT !.kind = "error",
                                            !.err = ErrScheme(u.scheme)],
                pool |-> NoPool]

(* ========================== connection pool ============================ *)

\* Close on a pooled connection: back to the idle set.
PoolRelease(p, conn) == [p EXCEPT !.idle = @ \cup {conn}]

\* Pool.Remove: the connection is closed and no longer counted.
PoolRemove(p, conn) == [p EXCEPT !.idle = @ \ {conn}, !.total = @ - 1]

\* Pool.GetWithTimeout hands out an idle connection.
PoolTake(p, conn) == [p EXCEPT !.idle = @ \ {conn}]

\* Pool.GetWithTimeout dials a new connection: none idle, capacity left.
PoolCanDial(p) == p.idle = {} /\ p.total < p.cap

PoolDial(p) == [p EXCEPT !.total = @ + 1]

(* ============================== state ================================== *)

VARIABLES
    uriIn,      \* the uri NewSOAPClient was called with (UnsetURI before)
    client,     \* the SOAPClient NewSOAPClient returned
    pool,       \* the socket client's connection pool
    connSt,     \* each connection: "undialed", "idle", "acquired", "removed"
    pc,         \* each DoRequest call's position
    conn,       \* the connection c of the call's current loop iteration
    resp,       \* the response the call has read
    canReuse,   \* canReuseConnection
    err,        \* the error DoRequest returned
    dest,       \* what the call decoded into v
    ctxDone,    \* the caller's context is cancelled
    attempts,   \* iterations of the socket loop started by the call
    doc,        \* SpecParse: the stream handed to parseSOAPResponse
    parsed,     \* SpecParse: what parseSOAPResponse returned
    payload,    \* SpecWrap: the payload handed to soapEnvelope
    mainPc,     \* SpecServe: position of Server.Serve
    username,   \* SpecServe: the username Serve was called with
    serveCtx,   \* SpecServe: serveCtx is "live" or "done"
    errCh,      \* SpecServe: number of errors buffered in errCh
    exitCh,     \* SpecServe: exitCh is "open" or "closed"
    shutdown,   \* SpecServe: srv.Shutdown has been called
    lPc,        \* SpecServe: position of the goroutine running srv.Serve
    rPc,        \* SpecServe: position of the session refresh goroutine
    session,    \* SpecServe: s.session (NilSession or a session's number)
    sessionErr, \* SpecServe: NewSession's last result was an error
    created,    \* SpecServe: number of sessions NewSession has created
    nPc,        \* SpecServe: position of each session's end notifier
    refreshCh,  \* SpecServe: number of values buffered in refreshCh
    retry       \* SpecServe: the retry timer: "stopped", "armed", "fired"

clientVars == << uriIn, client >>
poolVars   == << pool, connSt >>
reqVars    == << pc, conn, resp, canReuse, err, dest, ctxDone, attempts >>
parseVars  == << doc, parsed, payload >>
mainVars   == << mainPc, username, serveCtx, errCh, exitCh, shutdown, lPc >>
refreshVars == << rPc, session, sessionErr, created, nPc, refreshCh, retry >>
serveVars  == << mainVars, refreshVars >>
soapVars   == << clientVars, poolVars, reqVars, parseVars >>
vars == << uriIn, client, pool, connSt, pc, conn, resp, canReuse,
           err, dest, ctxDone, attempts, doc, parsed, payload,
           mainPc, username, serveCtx, errCh, exitCh, shutdown, lPc,
           rPc, session, sessionErr, created, nPc, refreshCh, retry >>

\* Response bodies the backend sends: an envelope around one element, and a
\* document without Body.
GoodBody == soapEnvelope(<< StartTok([prefix |-> "ns", local |-> "a"]),
                            EndTok([prefix |-> "ns", local |-> "a"]) >>)
BadBody  == << ProcTok, StartTok(EnvelopeName), EndTok(EnvelopeName) >>
Bodies   == {GoodBody, BadBody}

\* Values of the response's Connection header ("" when absent).
ConnectionHeaders == {"keep-alive", "close", ""}
StatusCodes == {StatusOK, 500}

\* A response as http.ReadResponse / Client.Do return it: status line and
\* headers; body is what has been read of the body stream, bodyRead whether
\* it has been read at all, bodyClosed whether resp.Body.Close() was called.
NoResp == [status |-> 0, connection |-> "", body |-> << >>, bodyRead |-> FALSE,
           bodyClosed |-> FALSE]
Resps  == [status : StatusCodes, connection : ConnectionHeaders,
           body : {<< >>}, bodyRead : {FALSE}, bodyClosed : {FALSE}]

NoDest == [written |-> FALSE, value |-> NoValue]

NotReturned  == MkErr("none", 0)
ErrOpen      == MkErr("failed to open unix socket", 0)
ErrRead      == MkErr("failed to read from unix socket", 0)
ErrTransport == MkErr("http client error", 0)
ErrStatus(code) == MkErr("unexpected http response status", code)

InitClient ==
    /\ uriIn = UnsetURI
    /\ client = NoClient
    /\ pool = NoPool
    /\ connSt = [k \in Conns |-> "undialed"]

InitReqs ==
    /\ pc = [r \in Reqs |-> "idle"]
    /\ conn = [r \in Reqs |-> NoConn]
    /\ resp = [r \in Reqs |-> NoResp]
    /\ canReuse = [r \in Reqs |-> FALSE]
    /\ err = [r \in Reqs |-> NotReturned]
    /\ dest = [r \in Reqs |-> NoDest]
    /\ ctxDone = [r \in Reqs |-> FALSE]
    /\ attempts = [r \in Reqs |-> 0]

\* Server.Serve has not been called.
InitServe ==
    /\ mainPc = "idle"
    /\ username = ""
    /\ serveCtx = "live"
    /\ errCh = 0
    /\ exitCh = "open"
    /\ shutdown = FALSE
    /\ lPc = "none"
    /\ rPc = "none"
    /\ session = NilSession
    /\ sessionErr = FALSE
    /\ created = 0
    /\ nPc = [i \in Sessions |-> "none"]
    /\ refreshCh = 0
    /\ retry = "stopped"

Init ==
    /\ InitClient
    /\ InitReqs
    /\ doc = << >>
    /\ parsed = NotParsed
    /\ payload = << >>
    /\ InitServe

(* ============================ actions ================================== *)

\* The program calls NewSOAPClient(uri).
NewClient(uri) ==
    /\ uriIn = UnsetURI
    /\ uriIn' = uri
    /\ client' = NewSOAPClient(uri).client
    /\ pool' = NewSOAPClient(uri).pool
    /\ UNCHANGED << connSt, reqVars, parseVars, serveVars >>

\* A caller enters DoRequest with a fresh context and destination.
Call(r) ==
    /\ client.kind \in {"http", "socket"}
    /\ pc[r] = "idle"
    /\ pc' = [pc EXCEPT ![r] = IF client.kind = "http" THEN "do" ELSE "acquire"]
    /\ attempts' = [attempts EXCEPT ![r] = IF client.kind = "socket" THEN 1 ELSE 0]
    /\ UNCHANGED << clientVars, poolVars, conn, resp, canReuse, err, dest,
                    ctxDone, parseVars, serveVars >>

\* The caller cancels the context of a call in flight.
Cancel(r) ==
    /\ pc[r] \notin {"idle", "done"}
    /\ ~ctxDone[r]
    /\ ctxDone' = [ctxDone EXCEPT ![r] = TRUE]
    /\ UNCHANGED << clientVars, poolVars, pc, conn, resp, canReuse, err, dest,
                    attempts, parseVars, serveVars >>

\* DoRequest has returned; the caller picks up the result and may call again.
Return(r) ==
    /\ pc[r] = "done"
    /\ pc' = [pc EXCEPT ![r] = "idle"]
    /\ conn' = [conn EXCEPT ![r] = NoConn]
    /\ resp' = [resp EXCEPT ![r] = NoResp]
    /\ canReuse' = [canReuse EXCEPT ![r] = FALSE]
    /\ err' = [err EXCEPT ![r] = NotReturned]
    /\ dest' = [dest EXCEPT ![r] = NoDest]
    /\ ctxDone' = [ctxDone EXCEPT ![r] = FALSE]
    /\ attempts' = [attempts EXCEPT ![r] = 0]
    /\ UNCHANGED << clientVars, poolVars, parseVars, serveVars >>

(* ---------------- SOAPSocketClient.DoRequest --------------------------- *)

\* sc.Pool.GetWithTimeout returns an idle connection.
SockAcquireIdle(r) ==
    /\ client.kind = "socket" /\ pc[r] = "acquire"
    /\ \E k \in pool.idle :
         /\ pool' = PoolTake(pool, k)
         /\ connSt' = [connSt EXCEPT ![k] = "acquired"]
         /\ conn' = [conn EXCEPT ![r] = k]
    /\ pc' = [pc EXCEPT ![r] = "write"]
    /\ UNCHANGED << clientVars, resp, canReuse, err, dest, ctxDone,
                    attempts, parseVars, serveVars >>

\* sc.Pool.GetWithTimeout returns a newly dialed connection.
SockAcquireDial(r) ==
    /\ client.kind = "socket" /\ pc[r] = "acquire"
    /\ PoolCanDial(pool)
    /\ \E k \in Conns :
         /\ connSt[k] = "undialed"
         /\ \A j \in Conns : connSt[j] = "undialed" => k <= j
         /\ pool' = PoolDial(pool)
         /\ connSt' = [connSt EXCEPT ![k] = "acquired"]
         /\ conn' = [conn EXCEPT ![r] = k]
    /\ pc' = [pc EXCEPT ![r] = "write"]
    /\ UNCHANGED << clientVars, resp, canReuse, err, dest, ctxDone,
                    attempts, parseVars, serveVars >>


\* SockAcquireTimeout with Remove(c) called on the error path.
SockAcquireTimeout_Remove(r) ==
    /\ client.kind = "socket" /\ pc[r] = "acquire"
    /\ pool.idle = {}
    /\ pool' = PoolRemove(pool, NoConn)
    /\ err' = [err EXCEPT ![r] = ErrOpen]
    /\ pc' = [pc EXCEPT ![r] = "done"]
    /\ UNCHANGED << clientVars, connSt, conn, resp, canReuse, dest, ctxDone,
                    attempts, parseVars, serveVars >>

\* sc.Pool.GetWithTimeout times out: DoRequest returns the open error.
SockAcquireTimeout(r) ==
    /\ client.kind = "socket" /\ pc[r] = "acquire"
    /\ pool.idle = {}
    /\ err' = [err EXCEPT ![r] = ErrOpen]
    /\ pc' = [pc EXCEPT ![r] = "done"]
    /\ UNCHANGED << clientVars, poolVars, conn, resp, canReuse, dest, ctxDone,
                    attempts, parseVars, serveVars >>

\* body.WriteTo(c) succeeds.
SockWriteOK(r) ==
    /\ client.kind = "socket" /\ pc[r] = "write"
    /\ pc' = [pc EXCEPT ![r] = "read"]
    /\ UNCHANGED << clientVars, poolVars, conn, resp, canReuse, err, dest,
                    ctxDone, attempts, parseVars, serveVars >>


\* SockWriteFail with c.Close() in place of Remove(c).
SockWriteFail_Close(r) ==
    /\ client.kind = "socket" /\ pc[r] = "write"
    /\ pool' = PoolRelease(pool, conn[r])
    /\ connSt' = [connSt EXCEPT ![conn[r]] = "idle"]
    /\ attempts' = [attempts EXCEPT ![r] = @ + 1]
    /\ conn' = [conn EXCEPT ![r] = NoConn]
    /\ pc' = [pc EXCEPT ![r] = "acquire"]
    /\ UNCHANGED << clientVars, resp, canReuse, err, dest, ctxDone, parseVars, serveVars >>

\* SockWriteFail giving up after the second failed write.
ErrRetries == MkErr("too many write failures", 0)

SockWriteFail_MaxRetries(r) ==
    /\ client.kind = "socket" /\ pc[r] = "write"
    /\ pool' = PoolRemove(pool, conn[r])
    /\ connSt' = [connSt EXCEPT ![conn[r]] = "removed"]
    /\ conn' = [conn EXCEPT ![r] = NoConn]
    /\ IF attempts[r] >= 2
       THEN /\ err' = [err EXCEPT ![r] = ErrRetries]
            /\ pc' = [pc EXCEPT ![r] = "done"]
            /\ UNCHANGED attempts
       ELSE /\ attempts' = [attempts EXCEPT ![r] = @ + 1]
            /\ pc' = [pc EXCEPT ![r] = "acquire"]
            /\ UNCHANGED err
    /\ UNCHANGED << clientVars, resp, canReuse, dest, ctxDone, parseVars, serveVars >>

\* body.WriteTo(c) fails: Remove(c) and continue with the next iteration.
SockWriteFail(r) ==
    /\ client.kind = "socket" /\ pc[r] = "write"
    /\ pool' = PoolRemove(pool, conn[r])
    /\ connSt' = [connSt EXCEPT ![conn[r]] = "removed"]
    /\ attempts' = [attempts EXCEPT ![r] = @ + 1]
    /\ conn' = [conn EXCEPT ![r] = NoConn]
    /\ pc' = [pc EXCEPT ![r] = "acquire"]
    /\ UNCHANGED << clientVars, resp, canReuse, err, dest, ctxDone, parseVars, serveVars >>


\* SockReadFail with Remove(c) called a second time by a deferred cleanup.
SockReadFail_RemoveTwice(r) ==
    /\ client.kind = "socket" /\ pc[r] = "read"
    /\ pool' = PoolRemove(PoolRemove(pool, conn[r]), conn[r])
    /\ connSt' = [connSt EXCEPT ![conn[r]] = "removed"]
    /\ err' = [err EXCEPT ![r] = ErrRead]
    /\ conn' = [conn EXCEPT ![r] = NoConn]
    /\ pc' = [pc EXCEPT ![r] = "done"]
    /\ UNCHANGED << clientVars, resp, canReuse, dest, ctxDone, attempts,
                    parseVars, serveVars >>

\* SockReadFail continuing with the next iteration as a write failure does.
SockReadFail_Retry(r) ==
    /\ client.kind = "socket" /\ pc[r] = "read"
    /\ pool' = PoolRemove(pool, conn[r])
    /\ connSt' = [connSt EXCEPT ![conn[r]] = "removed"]
    /\ attempts' = [attempts EXCEPT ![r] = @ + 1]
    /\ conn' = [conn EXCEPT ![r] = NoConn]
    /\ pc' = [pc EXCEPT ![r] = "acquire"]
    /\ UNCHANGED << clientVars, resp, canReuse, err, dest, ctxDone, parseVars, serveVars >>

\* http.ReadResponse fails: Remove(c) and return the read error.
SockReadFail(r) ==
    /\ client.kind = "socket" /\ pc[r] = "read"
    /\ pool' = PoolRemove(pool, conn[r])
    /\ connSt' = [connSt EXCEPT ![conn[r]] = "removed"]
    /\ err' = [err EXCEPT ![r] = ErrRead]
    /\ conn' = [conn EXCEPT ![r] = NoConn]
    /\ pc' = [pc EXCEPT ![r] = "done"]
    /\ UNCHANGED << clientVars, resp, canReuse, dest, ctxDone, attempts,
                    parseVars, serveVars >>


\* SockReadOK with c.Close() called at once on keep-alive, not deferred.
SockReadOK_EarlyClose(r) ==
    /\ client.kind = "socket" /\ pc[r] = "read"
    /\ \E rs \in Resps :
         /\ resp' = [resp EXCEPT ![r] = rs]
         /\ canReuse' = [canReuse EXCEPT ![r] = (rs.connection = "keep-alive")]
         /\ IF rs.connection = "keep-alive"
            THEN /\ pool' = PoolRelease(pool, conn[r])
                 /\ connSt' = [connSt EXCEPT ![conn[r]] = "idle"]
            ELSE /\ pool' = pool
                 /\ connSt' = connSt
         /\ IF rs.status # StatusOK
            THEN /\ err' = [err EXCEPT ![r] = ErrStatus(rs.status)]
                 /\ pc' = [pc EXCEPT ![r] = "defer"]
            ELSE /\ err' = err
                 /\ pc' = [pc EXCEPT ![r] = "unwrap"]
    /\ UNCHANGED << clientVars, conn, dest, ctxDone, attempts, parseVars, serveVars >>

\* SockReadOK with the connection reused unless the header says close.
SockReadOK_ReuseUnlessClose(r) ==
    /\ client.kind = "socket" /\ pc[r] = "read"
    /\ \E rs \in Resps :
         /\ resp' = [resp EXCEPT ![r] = rs]
         /\ canReuse' = [canReuse EXCEPT ![r] = (rs.connection # "close")]
         /\ IF rs.status # StatusOK
            THEN /\ err' = [err EXCEPT ![r] = ErrStatus(rs.status)]
                 /\ pc' = [pc EXCEPT ![r] = "defer"]
            ELSE /\ err' = err
                 /\ pc' = [pc EXCEPT ![r] = "unwrap"]
    /\ UNCHANGED << clientVars, poolVars, conn, dest, ctxDone, attempts,
                    parseVars, serveVars >>

\* SockReadOK without the status check.
SockReadOK_NoStatusCheck(r) ==
    /\ client.kind = "socket" /\ pc[r] = "read"
    /\ \E rs \in Resps :
         /\ resp' = [resp EXCEPT ![r] = rs]
         /\ canReuse' = [canReuse EXCEPT ![r] = (rs.connection = "keep-alive")]
    /\ pc' = [pc EXCEPT ![r] = "unwrap"]
    /\ UNCHANGED << clientVars, poolVars, conn, err, dest, ctxDone, attempts,
                    parseVars, serveVars >>

\* SockReadOK checking the status before the cleanup is deferred, so that
\* the return of a status error runs no cleanup.
SockReadOK_StatusBeforeDefer(r) ==
    /\ client.kind = "socket" /\ pc[r] = "read"
    /\ \E rs \in Resps :
         /\ resp' = [resp EXCEPT ![r] = rs]
         /\ canReuse' = [canReuse EXCEPT ![r] = (rs.connection = "keep-alive")]
         /\ IF rs.status # StatusOK
            THEN /\ err' = [err EXCEPT ![r] = ErrStatus(rs.status)]
                 /\ conn' = [conn EXCEPT ![r] = NoConn]
                 /\ pc' = [pc EXCEPT ![r] = "done"]
            ELSE /\ err' = err
                 /\ conn' = conn
                 /\ pc' = [pc EXCEPT ![r] = "unwrap"]
    /\ UNCHANGED << clientVars, poolVars, dest, ctxDone, attempts, parseVars, serveVars >>

\* SockReadOK running the cleanup where it is declared, not deferred.
SockReadOK_CleanupAtOnce(r) ==
    /\ client.kind = "socket" /\ pc[r] = "read"
    /\ \E rs \in Resps :
         /\ resp' = [resp EXCEPT ![r] = [rs EXCEPT !.bodyClosed = TRUE]]
         /\ canReuse' = [canReuse EXCEPT ![r] = (rs.connection = "keep-alive")]
         /\ IF rs.connection = "keep-alive"
            THEN /\ pool' = PoolRelease(pool, conn[r])
                 /\ connSt' = [connSt EXCEPT ![conn[r]] = "idle"]
            ELSE /\ pool' = PoolRemove(pool, conn[r])
                 /\ connSt' = [connSt EXCEPT ![conn[r]] = "removed"]
         /\ IF rs.status # StatusOK
            THEN /\ err' = [err EXCEPT ![r] = ErrStatus(rs.status)]
                 /\ pc' = [pc EXCEPT ![r] = "done"]
            ELSE /\ err' = err
                 /\ pc' = [pc EXCEPT ![r] = "unwrap2"]
    /\ UNCHANGED << clientVars, conn, dest, ctxDone, attempts, parseVars, serveVars >>

\* http.ReadResponse returns resp: canReuseConnection is computed, the
\* cleanup is deferred, and the status is checked: any code but 200 is
\* returned as an error.
SockReadOK(r) ==
    /\ client.kind = "socket" /\ pc[r] = "read"
    /\ \E rs \in Resps :
         /\ resp' = [resp EXCEPT ![r] = rs]
         /\ canReuse' = [canReuse EXCEPT ![r] = (rs.connection = "keep-alive")]
         /\ IF rs.status # StatusOK
            THEN /\ err' = [err EXCEPT ![r] = ErrStatus(rs.status)]
                 /\ pc' = [pc EXCEPT ![r] = "defer"]
            ELSE /\ err' = err
                 /\ pc' = [pc EXCEPT ![r] = "unwrap"]
    /\ UNCHANGED << clientVars, poolVars, conn, dest, ctxDone, attempts,
                    parseVars, serveVars >>

\* return parseSOAPResponse(resp.Body, v): the body is read from c.
SockUnwrap(r) ==
    /\ client.kind = "socket" /\ pc[r] = "unwrap"
    /\ \E b \in Bodies :
         LET res == parseSOAPResponse(b) IN
         /\ resp' = [resp EXCEPT ![r].body = b, ![r].bodyRead = TRUE]
         /\ err' = [err EXCEPT ![r] = res.err]
         /\ dest' = [dest EXCEPT ![r] = [written |-> res.elem # 0,
                                         value |-> res.value]]
    /\ pc' = [pc EXCEPT ![r] = "defer"]
    /\ UNCHANGED << clientVars, poolVars, conn, canReuse, ctxDone,
                    attempts, parseVars, serveVars >>

\* SockDeferred reusing the connection only when the call has no error.
SockDeferred_ReuseOnSuccess(r) ==
    /\ client.kind = "socket" /\ pc[r] = "defer"
    /\ resp' = [resp EXCEPT ![r].bodyClosed = TRUE]
    /\ IF canReuse[r] /\ err[r] = ErrNone
       THEN /\ pool' = PoolRelease(pool, conn[r])
            /\ connSt' = [connSt EXCEPT ![conn[r]] = "idle"]
       ELSE /\ pool' = PoolRemove(pool, conn[r])
            /\ connSt' = [connSt EXCEPT ![conn[r]] = "removed"]
    /\ conn' = [conn EXCEPT ![r] = NoConn]
    /\ pc' = [pc EXCEPT ![r] = "done"]
    /\ UNCHANGED << clientVars, canReuse, err, dest, ctxDone,
                    attempts, parseVars, serveVars >>

\* SockDeferred dropping a connection it does not reuse without Remove(c).
SockDeferred_NoRemove(r) ==
    /\ client.kind = "socket" /\ pc[r] = "defer"
    /\ resp' = [resp EXCEPT ![r].bodyClosed = TRUE]
    /\ IF canReuse[r]
       THEN /\ pool' = PoolRelease(pool, conn[r])
            /\ connSt' = [connSt EXCEPT ![conn[r]] = "idle"]
       ELSE /\ pool' = pool
            /\ connSt' = [connSt EXCEPT ![conn[r]] = "removed"]
    /\ conn' = [conn EXCEPT ![r] = NoConn]
    /\ pc' = [pc EXCEPT ![r] = "done"]
    /\ UNCHANGED << clientVars, canReuse, err, dest, ctxDone,
                    attempts, parseVars, serveVars >>

\* The deferred function: resp.Body.Close(), then c.Close() or Remove(c).
SockDeferred(r) ==
    /\ client.kind = "socket" /\ pc[r] = "defer"
    /\ resp' = [resp EXCEPT ![r].bodyClosed = TRUE]
    /\ IF canReuse[r]
       THEN /\ pool' = PoolRelease(pool, conn[r])
            /\ connSt' = [connSt EXCEPT ![conn[r]] = "idle"]
       ELSE /\ pool' = PoolRemove(pool, conn[r])
            /\ connSt' = [connSt EXCEPT ![conn[r]] = "removed"]
    /\ conn' = [conn EXCEPT ![r] = NoConn]
    /\ pc' = [pc EXCEPT ![r] = "done"]
    /\ UNCHANGED << clientVars, canReuse, err, dest, ctxDone,
                    attempts, parseVars, serveVars >>

(* ------------------ SOAPHTTPClient.DoRequest --------------------------- *)

\* HTTPDoFail with sc.Client.Do(req) executed once more after an error.
HTTPDoFail_Retry(r) ==
    /\ client.kind = "http" /\ pc[r] = "do"
    /\ IF attempts[r] < 1
       THEN /\ attempts' = [attempts EXCEPT ![r] = @ + 1]
            /\ UNCHANGED << err, pc >>
       ELSE /\ err' = [err EXCEPT ![r] = ErrTransport]
            /\ pc' = [pc EXCEPT ![r] = "done"]
            /\ UNCHANGED attempts
    /\ UNCHANGED << clientVars, poolVars, conn, resp, canReuse, dest, ctxDone,
                    parseVars, serveVars >>

\* sc.Client.Do(req) returns an error, as it must once ctx is cancelled:
\* DoRequest returns it.
HTTPDoFail(r) ==
    /\ client.kind = "http" /\ pc[r] = "do"
    /\ err' = [err EXCEPT ![r] = ErrTransport]
    /\ pc' = [pc EXCEPT ![r] = "done"]
    /\ UNCHANGED << clientVars, poolVars, conn, resp, canReuse, dest, ctxDone,
                    attempts, parseVars, serveVars >>

\* sc.Client.Do(req) returns a response; closing its body is deferred and
\* the status is checked: any code but 200 is returned as an error.
HTTPDoOK(r) ==
    /\ client.kind = "http" /\ pc[r] = "do"
    /\ ~ctxDone[r]
    /\ \E rs \in Resps :
         /\ resp' = [resp EXCEPT ![r] = rs]
         /\ IF rs.status # StatusOK
            THEN /\ err' = [err EXCEPT ![r] = ErrStatus(rs.status)]
                 /\ pc' = [pc EXCEPT ![r] = "defer"]
            ELSE /\ err' = err
                 /\ pc' = [pc EXCEPT ![r] = "unwrap"]
    /\ UNCHANGED << clientVars, poolVars, conn, canReuse, dest, ctxDone,
                    attempts, parseVars, serveVars >>

\* return parseSOAPResponse(resp.Body, v).  Once ctx is cancelled the body
\* stream may end early, after any number of tokens.
HTTPUnwrap(r) ==
    /\ client.kind = "http" /\ pc[r] = "unwrap"
    /\ \E b \in Bodies : \E n \in 0..Len(b) :
         /\ ctxDone[r] \/ n = Len(b)
         /\ LET res == parseSOAPResponse(SubSeq(b, 1, n)) IN
              /\ resp' = [resp EXCEPT ![r].body = SubSeq(b, 1, n),
                                      ![r].bodyRead = TRUE]
              /\ err' = [err EXCEPT ![r] = res.err]
              /\ dest' = [dest EXCEPT ![r] = [written |-> res.elem # 0,
                                              value |-> res.value]]
    /\ pc' = [pc EXCEPT ![r] = "defer"]
    /\ UNCHANGED << clientVars, poolVars, conn, canReuse, ctxDone,
                    attempts, parseVars, serveVars >>

\* The deferred resp.Body.Close().
HTTPDeferred(r) ==
    /\ client.kind = "http" /\ pc[r] = "defer"
    /\ resp' = [resp EXCEPT ![r].bodyClosed = TRUE]
    /\ pc' = [pc EXCEPT ![r] = "done"]
    /\ UNCHANGED << clientVars, poolVars, conn, canReuse, err, dest,
                    ctxDone, attempts, parseVars, serveVars >>

(* --------------------------- Spec -------------------------------------- *)

Next ==
    \/ \E u \in URIs : NewClient(u)
    \/ \E r \in Reqs : Call(r)
    \/ \E r \in Reqs : Return(r)
    \/ \E r \in Reqs : SockAcquireIdle(r)
    \/ \E r \in Reqs : SockAcquireDial(r)
    \/ \E r \in Reqs : SockAcquireTimeout(r)
    \/ \E r \in Reqs : SockWriteOK(r)
    \/ \E r \in Reqs : SockWriteFail(r)
    \/ \E r \in Reqs : SockReadFail(r)
    \/ \E r \in Reqs : SockReadOK(r)
    \/ \E r \in Reqs : SockUnwrap(r)
    \/ \E r \in Reqs : SockDeferred(r)
    \/ \E r \in Reqs : HTTPDoFail(r)
    \/ \E r \in Reqs : HTTPDoOK(r)
    \/ \E r \in Reqs : HTTPUnwrap(r)
    \/ \E r \in Reqs : HTTPDeferred(r)

Spec == Init /\ [][Next]_vars

\* Spec with callers that cancel their contexts.
NextCtx ==
    \/ Next
    \/ \E r \in Reqs : Cancel(r)

SpecCtx == Init /\ [][NextCtx]_vars

(* ------------------------- SpecParse ----------------------------------- *)

InitParse ==
    /\ InitClient
    /\ InitReqs
    /\ doc \in Docs
    /\ parsed = NotParsed
    /\ payload = << >>
    /\ InitServe

\* parseSOAPResponse is applied to the stream.
Parse ==
    /\ parsed = NotParsed
    /\ parsed' = parseSOAPResponse(doc)
    /\ UNCHANGED << clientVars, poolVars, reqVars, doc, payload, serveVars >>

NextParse == Parse

SpecParse == InitParse /\ [][NextParse]_vars

(* -------------------------- SpecWrap ----------------------------------- *)

InitWrap ==
    /\ InitClient
    /\ InitReqs
    /\ payload \in Docs
    /\ doc = << >>
    /\ parsed = NotParsed
    /\ InitServe

\* body := soapEnvelope(payload)
Wrap ==
    /\ doc = << >>
    /\ doc' = soapEnvelope(payload)
    /\ UNCHANGED << clientVars, poolVars, reqVars, parsed, payload, serveVars >>

\* parseSOAPResponse is applied to the envelope.
Unwrap ==
    /\ doc # << >>
    /\ parsed = NotParsed
    /\ parsed' = parseSOAPResponse(doc)
    /\ UNCHANGED << clientVars, poolVars, reqVars, doc, payload, serveVars >>

NextWrap == Wrap \/ Unwrap

SpecWrap == InitWrap /\ [][NextWrap]_vars

(* ========================= Server.Serve ================================ *)
(* Serve, the goroutine it starts around srv.Serve, the session refresh    *)
(* goroutine and the goroutines waiting for the end of a session.          *)
(* kcc.NewSession, net.Listen, srv.Serve and the signals are the           *)
(* environment: each may take any of its outcomes.                         *)

Usernames == {"", "kuserd"}

\* Server.setSession stores its argument; Server.getSession reads it back.
setSession(v) == v
getSession == session

\* Serve(ctx, username, password) is called: serveCtx and the channels are
\* made, the handlers registered, and with a username the refresh goroutine
\* is started (its timer stopped, refreshCh empty).
ServeCall(u) ==
    /\ mainPc = "idle"
    /\ username' = u
    /\ rPc' = IF u # "" THEN "clear" ELSE "none"
    /\ mainPc' = "listen"
    /\ UNCHANGED << soapVars, serveCtx, errCh, exitCh, shutdown, lPc, session,
                    sessionErr, created, nPc, refreshCh, retry >>

\* net.Listen fails: Serve returns the error; the deferred serveCtxCancel
\* runs.
MainListenFail ==
    /\ mainPc = "listen"
    /\ serveCtx' = "done"
    /\ mainPc' = "returned"
    /\ UNCHANGED << soapVars, username, errCh, exitCh, shutdown, lPc, refreshVars >>

\* net.Listen succeeds: the goroutine around srv.Serve is started and Serve
\* waits for an error or a signal.
MainListenOK ==
    /\ mainPc = "listen"
    /\ lPc' = "serving"
    /\ mainPc' = "select"
    /\ UNCHANGED << soapVars, username, serveCtx, errCh, exitCh, shutdown, refreshVars >>

\* srv.Serve returns its error, after Shutdown or on a listener error: the
\* error is sent to errCh.
LServeReturn ==
    /\ lPc = "serving"
    /\ errCh < ErrChCap
    /\ errCh' = errCh + 1
    /\ lPc' = "close"
    /\ UNCHANGED << soapVars, mainPc, username, serveCtx, exitCh, shutdown, refreshVars >>

\* close(exitCh)
LClose ==
    /\ lPc = "close"
    /\ exitCh' = "closed"
    /\ lPc' = "stopped"
    /\ UNCHANGED << soapVars, mainPc, username, serveCtx, errCh, shutdown, refreshVars >>

\* case err = <-errCh
MainSelectErr ==
    /\ mainPc = "select"
    /\ errCh > 0
    /\ errCh' = errCh - 1
    /\ mainPc' = "shutdown"
    /\ UNCHANGED << soapVars, username, serveCtx, exitCh, shutdown, lPc, refreshVars >>

\* case reason := <-signalCh
MainSelectSignal ==
    /\ mainPc = "select"
    /\ mainPc' = "shutdown"
    /\ UNCHANGED << soapVars, username, serveCtx, errCh, exitCh, shutdown, lPc,
                    refreshVars >>

\* srv.Shutdown(shutDownCtx)
MainShutdown ==
    /\ mainPc = "shutdown"
    /\ shutdown' = TRUE
    /\ mainPc' = "cancel"
    /\ UNCHANGED << soapVars, username, serveCtx, errCh, exitCh, lPc, refreshVars >>

\* serveCtxCancel()
MainCancel ==
    /\ mainPc = "cancel"
    /\ serveCtx' = "done"
    /\ mainPc' = "waitExit"
    /\ UNCHANGED << soapVars, username, errCh, exitCh, shutdown, lPc, refreshVars >>

\* The first select of the wait loop: return once exitCh is closed.
MainWaitExit ==
    /\ mainPc = "waitExit"
    /\ mainPc' = IF exitCh = "closed" THEN "returned" ELSE "waitSignal"
    /\ UNCHANGED << soapVars, username, serveCtx, errCh, exitCh, shutdown, lPc,
                    refreshVars >>

\* The second select of the wait loop receives a signal: return.
MainWaitSignal ==
    /\ mainPc = "waitSignal"
    /\ mainPc' = "returned"
    /\ UNCHANGED << soapVars, username, serveCtx, errCh, exitCh, shutdown, lPc,
                    refreshVars >>

\* The second select of the wait loop: 100 ms have passed.
MainWaitTick ==
    /\ mainPc = "waitSignal"
    /\ mainPc' = "waitExit"
    /\ UNCHANGED << soapVars, username, serveCtx, errCh, exitCh, shutdown, lPc,
                    refreshVars >>

(* ------------------- the session refresh goroutine --------------------- *)

\* s.setSession(nil) at the top of the loop; NewSession is called next.
RClear ==
    /\ rPc = "clear"
    /\ session' = setSession(NilSession)
    /\ rPc' = "new"
    /\ UNCHANGED << soapVars, mainVars, sessionErr, created, nPc, refreshCh, retry >>

\* RNewFail going back to the top of the loop without waiting.
RNewFail_NoWait ==
    /\ rPc = "new"
    /\ sessionErr' = TRUE
    /\ retry' = IF retry = "fired" THEN "fired" ELSE "armed"
    /\ rPc' = "clear"
    /\ UNCHANGED << soapVars, mainVars, session, created, nPc, refreshCh >>

\* kcc.NewSession returns an error: retry.Reset(5 * time.Second).
RNewFail ==
    /\ rPc = "new"
    /\ sessionErr' = TRUE
    /\ retry' = IF retry = "fired" THEN "fired" ELSE "armed"
    /\ rPc' = "select"
    /\ UNCHANGED << soapVars, mainVars, session, created, nPc, refreshCh >>

\* kcc.NewSession returns a session: it is stored and the goroutine that
\* waits for its end is started.
RNewOK ==
    /\ rPc = "new"
    /\ created < MaxSessions
    /\ created' = created + 1
    /\ session' = setSession(created + 1)
    /\ sessionErr' = FALSE
    /\ nPc' = [nPc EXCEPT ![created + 1] = "waiting"]
    /\ rPc' = "select"
    /\ UNCHANGED << soapVars, mainVars, refreshCh, retry >>

\* The retry timer fires: a value is ready on retry.C.
RetryFire ==
    /\ retry = "armed"
    /\ retry' = "fired"
    /\ UNCHANGED << soapVars, mainVars, rPc, session, sessionErr, created, nPc,
                    refreshCh >>

\* case <-refreshCh
RSelectRefresh ==
    /\ rPc = "select"
    /\ refreshCh > 0
    /\ refreshCh' = refreshCh - 1
    /\ rPc' = "clear"
    /\ UNCHANGED << soapVars, mainVars, session, sessionErr, created, nPc, retry >>

\* case <-retry.C
RSelectRetry ==
    /\ rPc = "select"
    /\ retry = "fired"
    /\ retry' = "stopped"
    /\ rPc' = "clear"
    /\ UNCHANGED << soapVars, mainVars, session, sessionErr, created, nPc, refreshCh >>

\* case <-exitCh: the goroutine returns.
RSelectExit ==
    /\ rPc = "select"
    /\ exitCh = "closed"
    /\ rPc' = "exited"
    /\ UNCHANGED << soapVars, mainVars, session, sessionErr, created, nPc, refreshCh,
                    retry >>

\* <-session.Context().Done(): session i has ended.
NSessionDone(i) ==
    /\ nPc[i] = "waiting"
    /\ nPc' = [nPc EXCEPT ![i] = "sending"]
    /\ UNCHANGED << soapVars, mainVars, rPc, session, sessionErr, created, refreshCh,
                    retry >>

\* refreshCh <- true
NSend(i) ==
    /\ nPc[i] = "sending"
    /\ refreshCh < RefreshChCap
    /\ refreshCh' = refreshCh + 1
    /\ nPc' = [nPc EXCEPT ![i] = "done"]
    /\ UNCHANGED << soapVars, mainVars, rPc, session, sessionErr, created, retry >>

NextServe ==
    \/ \E u \in Usernames : ServeCall(u)
    \/ MainListenFail
    \/ MainListenOK
    \/ LServeReturn
    \/ LClose
    \/ MainSelectErr
    \/ MainSelectSignal
    \/ MainShutdown
    \/ MainCancel
    \/ MainWaitExit
    \/ MainWaitSignal
    \/ MainWaitTick
    \/ RClear
    \/ RNewFail
    \/ RNewOK
    \/ RetryFire
    \/ RSelectRefresh
    \/ RSelectRetry
    \/ RSelectExit
    \/ \E i \in Sessions : NSessionDone(i)
    \/ \E i \in Sessions : NSend(i)

(* Every goroutine that can take a step takes one; a select with several   *)
(* ready cases picks each of them sooner or later; srv.Serve returns once  *)
(* Shutdown was called.  Nothing is assumed of signals, of listener errors *)
(* and of the end of a session.                                            *)
FairServe ==
    /\ WF_vars(MainSelectErr)
    /\ WF_vars(MainShutdown)
    /\ WF_vars(MainCancel)
    /\ WF_vars(MainWaitExit)
    /\ WF_vars(MainWaitTick)
    /\ WF_vars(shutdown /\ LServeReturn)
    /\ WF_vars(LClose)
    /\ WF_vars(RClear)
    /\ WF_vars(RNewFail \/ RNewOK)
    /\ WF_vars(RetryFire)
    /\ WF_vars(RSelectRefresh)
    /\ WF_vars(RSelectRetry)
    /\ SF_vars(RSelectExit)
    /\ \A i \in Sessions :
         WF_vars(NSend(i))

SpecServe == Init /\ [][NextServe]_vars /\ FairServe

(* ============================= claims ================================== *)

Acquired == {k \in Conns : connSt[k] = "acquired"}

\* Positions at which a socket call uses its connection c.
Holding == {"write", "read", "unwrap", "defer"}

\* C1: for a pool of capacity N, the connections in the acquired state plus
\* the idle connections never number more than N, and no more than N calls
\* hold a connection; a further acquirer waits or times out.
C1_PoolCapacity ==
    pool.made =>
      /\ Cardinality(Acquired) + Cardinality(pool.idle) <= pool.cap
      /\ Cardinality({r \in Reqs : pc[r] \in Holding}) <= pool.cap

\* All N connections are acquired, one having been removed after a failure,
\* while another call waits in acquisition.
C1_Witness ==
    /\ pool.made
    /\ Cardinality(Acquired) = pool.cap
    /\ \E k \in Conns : connSt[k] = "removed"
    /\ \E r \in Reqs : pc[r] = "acquire"

\* C2: a call that is writing to, reading from or otherwise holding its
\* connection owns it: the connection is in the acquired state (neither
\* released nor removed) and no other call holds the same connection.
C2_ExclusiveOwnership ==
    client.kind = "socket" =>
      \A r \in Reqs : pc[r] \in Holding =>
        /\ conn[r] \in Conns
        /\ connSt[conn[r]] = "acquired"
        /\ conn[r] \notin pool.idle
        /\ \A q \in Reqs : (q # r /\ pc[q] \in Holding) => conn[q] # conn[r]

\* A call reads its response body from connection 1, which is the only
\* connection dialed so far and which another call has used and released.
C2_Witness ==
    \E r, q \in Reqs :
      /\ r # q
      /\ pc[r] = "unwrap" /\ conn[r] = 1
      /\ pc[q] = "done" /\ resp[q].connection = "keep-alive"
      /\ \A k \in Conns : k # 1 => connSt[k] = "undialed"

\* C3: the step in which a socket call that parsed a response returns puts
\* its connection back into the idle pool when the Connection header is
\* keep-alive, and removes it when the header has another value or is absent.
C3_ReuseDecision ==
    [][\A r \in Reqs :
         (client.kind = "socket" /\ pc[r] = "defer" /\ pc'[r] = "done") =>
           IF resp[r].connection = "keep-alive"
           THEN /\ connSt'[conn[r]] = "idle"
                /\ conn[r] \in pool'.idle
                /\ pool'.total = pool.total
           ELSE /\ connSt'[conn[r]] = "removed"
                /\ conn[r] \notin pool'.idle
                /\ pool'.total = pool.total - 1]_vars

\* One call has returned after a keep-alive response and another after a
\* response without Connection header, whose connection is removed.
C3_Witness ==
    \E r, q \in Reqs :
      /\ client.kind = "socket"
      /\ pc[r] = "done" /\ resp[r].status # 0 /\ resp[r].connection = "keep-alive"
      /\ pc[q] = "done" /\ resp[q].status # 0 /\ resp[q].connection = ""
      /\ connSt[1] = "removed"

\* C4: a socket call whose first write failed and whose second write
\* succeeded, with a 200 response and a decodable body, returns success; and
\* the step of a write failure removes the connection the write failed on
\* and no other: one removal, the pool's count going down by one.
C4_WriteRetry ==
    /\ [](\A r \in Reqs :
            (/\ client.kind = "socket" /\ pc[r] = "done" /\ attempts[r] = 2
             /\ resp[r].status = StatusOK
             /\ parseSOAPResponse(resp[r].body).err = ErrNone)
            => err[r] = ErrNone)
    /\ [][\A r \in Reqs :
            (client.kind = "socket" /\ pc[r] = "write" /\ pc'[r] = "acquire") =>
              /\ connSt'[conn[r]] = "removed"
              /\ \A k \in Conns : k # conn[r] => connSt'[k] = connSt[k]
              /\ pool'.total = pool.total - 1
              /\ pool'.idle = pool.idle]_vars

\* A call has returned success on its second attempt, after the write on
\* connection 1 failed; connection 1 is the only one removed.
C4_Witness ==
    \E r \in Reqs :
      /\ client.kind = "socket" /\ pc[r] = "done" /\ attempts[r] = 2
      /\ err[r] = ErrNone
      /\ {k \in Conns : connSt[k] = "removed"} = {1}
      /\ pool.total = 1

\* C5: the step in which acquisition times out makes the call return the
\* open error and touches nothing: no connection changes state, the pool's
\* idle set and count are as before, nothing is read or decoded.
C5_AcquireTimeout ==
    [][\A r \in Reqs :
         (client.kind = "socket" /\ pc[r] = "acquire" /\ pc'[r] = "done") =>
           /\ err'[r] = ErrOpen
           /\ pool' = pool
           /\ connSt' = connSt
           /\ conn'[r] = NoConn
           /\ resp'[r] = NoResp
           /\ dest'[r] = NoDest]_vars

\* A call has timed out in acquisition while the pool's connections are all
\* held by other calls.
C5_Witness ==
    \E r \in Reqs :
      /\ pc[r] = "done" /\ err[r] = ErrOpen
      /\ Cardinality(Acquired) = pool.cap
      /\ pool.total = pool.cap

\* C6: once the context of a call is cancelled, the call takes no further
\* blocking step and starts no further attempt: its next steps only finish
\* it (the deferred cleanup, the return).
C6_CancelStopsCall ==
    [][\A r \in Reqs :
         (ctxDone[r] /\ pc'[r] # pc[r]) =>
           /\ pc'[r] \in {"defer", "done", "idle"}
           /\ attempts'[r] <= attempts[r]]_vars

\* C7: for either transport, a response with a status other than 200 makes
\* DoRequest return the status error carrying that code, with the body never
\* read or decoded into the destination; the body is read only at status 200,
\* and then DoRequest returns what parseSOAPResponse returns for it.
C7_StatusGate ==
    \A r \in Reqs :
      /\ (resp[r].bodyRead \/ dest[r] # NoDest) => resp[r].status = StatusOK
      /\ (pc[r] \in {"defer", "done"} /\ resp[r].status # 0) =>
           IF resp[r].status # StatusOK
           THEN /\ err[r].msg = "unexpected http response status"
                /\ err[r].code = resp[r].status
                /\ dest[r] = NoDest
                /\ ~resp[r].bodyRead
           ELSE /\ resp[r].bodyRead
                /\ err[r] = parseSOAPResponse(resp[r].body).err
                /\ dest[r].value = parseSOAPResponse(resp[r].body).value

\* One call has returned the status error for a 500 response and another
\* has returned success for a 200 response.
C7_Witness ==
    \E r, q \in Reqs :
      /\ pc[r] = "done" /\ resp[r].status = 500 /\ err[r].code = 500
      /\ pc[q] = "done" /\ resp[q].status = StatusOK /\ err[q] = ErrNone
      /\ dest[q].written

\* C8: NewSOAPClient dispatches on the scheme alone: http and https give an
\* HTTP client on the default client whose URI is the uri's string; file
\* gives a socket client on the uri's path whose pool has the capacity
\* DefaultUnixMaxConnections and is empty until the first dial; any other
\* scheme gives the invalid scheme error, no client and no pool.
C8_SchemeDispatch ==
    uriIn # UnsetURI =>
      LET u == IF uriIn = NilURI THEN DefaultURI ELSE uriIn IN
      CASE u.scheme \in {"http", "https"} ->
             /\ client.kind = "http"
             /\ client.Client = "DefaultHTTPClient"
             /\ client.URI = u.scheme \o "://" \o u.host \o u.path
             /\ client.err = ErrNone
             /\ pool = NoPool
        [] u.scheme = "file" ->
             /\ client.kind = "socket"
             /\ client.Path = u.path
             /\ client.err = ErrNone
             /\ pool.made
             /\ pool.cap = DefaultUnixMaxConnections
             /\ (\A k \in Conns : connSt[k] = "undialed")
                  => (pool.idle = {} /\ pool.total = 0)
        [] OTHER ->
             /\ client.kind = "error"
             /\ client.err.msg = "invalid scheme '" \o u.scheme \o "' for SOAP client"
             /\ pool = NoPool
             /\ \A r \in Reqs : pc[r] = "idle"

\* NewSOAPClient was given a file uri and returned a socket client with its
\* pool, from which nothing has been dialed yet.
C8_Witness ==
    /\ uriIn # UnsetURI /\ uriIn # NilURI
    /\ uriIn.scheme = "file"
    /\ client.kind = "socket"
    /\ pool.made /\ pool.total = 0

(* ---------------- claims about parseSOAPResponse ----------------------- *)

IsStart(d, i) == d[i].kind = "start"

\* The first start element of d with local name Body (0: none).
FirstBody(d) ==
    LET S == {i \in 1..Len(d) : IsStart(d, i) /\ d[i].name.local = "Body"}
    IN  IF S = {} THEN 0 ELSE CHOOSE i \in S : \A j \in S : i <= j

\* Open elements after the first i tokens of d.
Depth(d, i) ==
    Cardinality({m \in 1..i : d[m].kind = "start"})
      - Cardinality({m \in 1..i : d[m].kind = "end"})

\* The first child element of the element starting at b (0: none): the first
\* start element after b, provided the element at b is still open there.
FirstChild(d, b) ==
    LET S == {j \in (b + 1)..Len(d) : IsStart(d, j)}
        j0 == CHOOSE j \in S : \A k \in S : j <= k
    IN  IF S = {} THEN 0
        ELSE IF \A m \in b..(j0 - 1) : Depth(d, m) >= Depth(d, b) THEN j0
        ELSE 0

\* C9: parseSOAPResponse decodes only the first child of Body: an element it
\* decodes is the first child element of the first Body start element, it is
\* the one element decoded and scanning stops at its end; and when there is
\* no Body element, or Body has no child element, it returns the unmarshal
\* error and decodes nothing.
C9_FirstChildOfBody ==
    parsed # NotParsed =>
      /\ parsed.elem # 0 =>
           /\ FirstBody(doc) # 0
           /\ parsed.elem = FirstChild(doc, FirstBody(doc))
           /\ parsed.err = ErrNone =>
                /\ parsed.value = SubSeq(doc, parsed.elem, parsed.stop)
                /\ Depth(doc, parsed.stop) = Depth(doc, parsed.elem) - 1
      /\ (FirstBody(doc) = 0 \/ FirstChild(doc, FirstBody(doc)) = 0) =>
           /\ parsed.err = ErrUnmarshal
           /\ parsed.elem = 0

NoBodyStart(d) ==
    \A i \in 1..Len(d) : ~(IsStart(d, i) /\ d[i].name.local = "Body")

\* C10: for a stream without a start element of local name Body, the empty
\* stream and streams cut short by a tokenizer error included,
\* parseSOAPResponse returns the unmarshal error and decodes nothing.
C10_MissingBody ==
    (parsed # NotParsed /\ NoBodyStart(doc)) =>
      /\ parsed.err = ErrUnmarshal
      /\ parsed.elem = 0
      /\ parsed.value = NoValue
      /\ ~parsed.partial

\* parseSOAPResponse has returned the error for a well-formed stream whose
\* outer element is named body, in lower case, around a child element.
C10_Witness ==
    /\ parsed # NotParsed
    /\ NoBodyStart(doc)
    /\ Len(doc) = 4
    /\ doc[1] = StartTok([prefix |-> "", local |-> "body"])
    /\ doc[2] = StartTok([prefix |-> "ns", local |-> "a"])
    /\ doc[3] = EndTok([prefix |-> "ns", local |-> "a"])
    /\ doc[4] = EndTok([prefix |-> "", local |-> "body"])
    /\ parsed.err = ErrUnmarshal

(* ------------------- claims about the round trip ----------------------- *)

\* The open elements after tokens i..Len(d) of d were read on top of stack,
\* or the marker Broken when a token is rejected, an end element closes no
\* open element or the wrong one, or the stack empties before the last token.
Broken == << [prefix |-> "", local |-> "broken"] >>

RECURSIVE OpenAfter(_, _, _)
OpenAfter(d, i, stack) ==
    IF i > Len(d) THEN stack
    ELSE IF i > 1 /\ stack = << >> THEN Broken
    ELSE CASE d[i].kind = "start" -> OpenAfter(d, i + 1, Append(stack, d[i].name))
           [] d[i].kind = "end" ->
                IF stack # << >> /\ stack[Len(stack)] = d[i].name
                THEN OpenAfter(d, i + 1, SubSeq(stack, 1, Len(stack) - 1))
                ELSE Broken
           [] d[i].kind = "bad" -> Broken
           [] OTHER -> OpenAfter(d, i + 1, stack)

\* d is exactly one well-formed element: it opens with a start element and
\* that element is closed by the last token and not before.
WellFormedElement(d) ==
    /\ Len(d) >= 2
    /\ d[1].kind = "start"
    /\ OpenAfter(d, 1, << >>) = << >>

\* C11: the envelope is the header, the payload and the footer, in this
\* order and nothing else; and for a payload that is exactly one well-formed
\* element, whatever its name and children, parseSOAPResponse applied to the
\* envelope succeeds and decodes that element, whole and unchanged.
C11_RoundTrip ==
    /\ doc # << >> =>
         /\ Len(doc) = Len(soapHeader) + Len(payload) + Len(soapFooter)
         /\ SubSeq(doc, 1, Len(soapHeader)) = soapHeader
         /\ SubSeq(doc, Len(soapHeader) + 1, Len(soapHeader) + Len(payload))
              = payload
         /\ SubSeq(doc, Len(soapHeader) + Len(payload) + 1, Len(doc))
              = soapFooter
    /\ (parsed # NotParsed /\ WellFormedElement(payload)) =>
         /\ parsed.err = ErrNone
         /\ parsed.elem = Len(soapHeader) + 1
         /\ parsed.value = payload
         /\ ~parsed.partial

\* The round trip was made for a payload whose element is itself named Body
\* and has a child element.
C11_Witness ==
    /\ parsed # NotParsed
    /\ WellFormedElement(payload)
    /\ Len(payload) = 4
    /\ payload[1] = StartTok([prefix |-> "", local |-> "Body"])
    /\ payload[2].kind = "start"
    /\ parsed.value = payload

(* ---------------- claims about the two DoRequest ----------------------- *)

\* The locals of call r.
Locals(r) == << pc[r], conn[r], resp[r], canReuse[r], err[r], dest[r],
               attempts[r] >>

\* C12: an HTTP call executes the client once: it comes to sc.Client.Do only
\* from its start, every step it takes there leaves Do for good, and when Do
\* returned an error the call returns that error at once with no response
\* kept and nothing decoded.
C12_HTTPNoRetry ==
    /\ [](\A r \in Reqs :
            (client.kind = "http" /\ pc[r] = "done" /\ resp[r] = NoResp) =>
              /\ err[r] = ErrTransport
              /\ dest[r] = NoDest)
    /\ [][\A r \in Reqs : client.kind = "http" =>
            /\ (pc'[r] = "do" /\ pc[r] # "do") => pc[r] = "idle"
            /\ (pc[r] = "do" /\ Locals(r)' # Locals(r)) =>
                 /\ pc'[r] \in {"done", "defer", "unwrap"}
                 /\ attempts'[r] = attempts[r]
                 /\ pc'[r] = "done" =>
                      /\ err'[r] = ErrTransport
                      /\ resp'[r] = NoResp
                      /\ dest'[r] = NoDest]_vars

\* An HTTP call has returned the transport error while another HTTP call
\* has returned success.
C12_Witness ==
    \E r, q \in Reqs :
      /\ client.kind = "http"
      /\ pc[r] = "done" /\ err[r] = ErrTransport /\ dest[r] = NoDest
      /\ pc[q] = "done" /\ err[q] = ErrNone /\ dest[q].written

\* C13: the socket loop has no retry limit: whatever the number of attempts
\* made so far, a call that leaves its write either goes on to read (the
\* write succeeded) or has its connection removed and starts the next
\* attempt at acquisition; and a call returns only after an acquisition
\* timed out or after a write succeeded, never for the number of failures.
C13_UnboundedRetry ==
    /\ [](\A r \in Reqs :
            (client.kind = "socket" /\ pc[r] = "done") =>
              \/ err[r] = ErrOpen
              \/ err[r] = ErrRead
              \/ resp[r] # NoResp)
    /\ [][\A r \in Reqs :
            (client.kind = "socket" /\ pc[r] = "write" /\ pc'[r] # "write") =>
              \/ /\ pc'[r] = "read"
                 /\ attempts'[r] = attempts[r]
              \/ /\ pc'[r] = "acquire"
                 /\ attempts'[r] = attempts[r] + 1
                 /\ connSt'[conn[r]] = "removed"
                 /\ err'[r] = NotReturned]_vars

\* A call has returned success on the last connection the dialer can make,
\* the write on every connection before it having failed.
C13_Witness ==
    \E r \in Reqs :
      /\ client.kind = "socket" /\ pc[r] = "done" /\ err[r] = ErrNone
      /\ attempts[r] = MaxDials
      /\ \A k \in Conns : k < MaxDials => connSt[k] = "removed"

\* C14: when reading the response fails after a successful write, the call
\* removes its connection and returns the read error in the same step: the
\* connection is not in the idle set and its place is freed, no new attempt
\* is counted, and the call takes no step but its return afterwards; a
\* removed connection stays removed.
C14_ReadFailFatal ==
    /\ [](\A r \in Reqs :
            (client.kind = "socket" /\ pc[r] = "done" /\ err[r] = ErrRead) =>
              /\ resp[r] = NoResp
              /\ dest[r] = NoDest
              /\ conn[r] = NoConn)
    /\ [][\A r \in Reqs : client.kind = "socket" =>
            /\ (pc[r] = "read" /\ pc'[r] \notin {"read", "unwrap", "defer"}) =>
                 /\ pc'[r] = "done"
                 /\ err'[r] = ErrRead
                 /\ attempts'[r] = attempts[r]
                 /\ connSt'[conn[r]] = "removed"
                 /\ conn[r] \notin pool'.idle
                 /\ pool'.total = pool.total - 1
            /\ (pc[r] = "done" /\ Locals(r)' # Locals(r)) => pc'[r] = "idle"
            /\ \A k \in Conns : connSt[k] = "removed" =>
                 (connSt'[k] = "removed" /\ k \notin pool'.idle)]_vars

\* A call has returned the read error on its first attempt; its connection
\* is removed and another call holds a connection dialed in its place.
C14_Witness ==
    \E r, q \in Reqs :
      /\ client.kind = "socket"
      /\ pc[r] = "done" /\ err[r] = ErrRead /\ attempts[r] = 1
      /\ connSt[1] = "removed"
      /\ pc[q] \in Holding /\ conn[q] = 2

Removed == {k \in Conns : connSt[k] = "removed"}
Dialed  == {k \in Conns : connSt[k] # "undialed"}

\* Calls inside DoRequest.
InFlight == {r \in Reqs : pc[r] \notin {"idle", "done"}}

\* C15: the pool's count goes down by one for every removal: it is always
\* the number of connections dialed less the number removed, which is the
\* number acquired or idle; so when no call is in flight nothing is
\* acquired, and the idle connections plus the places free for dialing are
\* the whole capacity again, however many connections were removed.
C15_RemoveFreesCapacity ==
    pool.made =>
      /\ pool.total = Cardinality(Dialed) - Cardinality(Removed)
      /\ pool.total = Cardinality(Acquired) + Cardinality(pool.idle)
      /\ pool.total >= 0
      /\ InFlight = {} =>
           /\ Acquired = {}
           /\ Cardinality(pool.idle) + (pool.cap - pool.total) = pool.cap

\* Connections were removed after a write failure and after a response
\* without keep-alive, and the pool has handed out its whole capacity again.
C15_Witness ==
    /\ pool.made
    /\ Cardinality(Removed) >= 2
    /\ Cardinality(Acquired) = pool.cap
    /\ \E r \in Reqs : pc[r] = "done" /\ resp[r].connection = "close"
                         /\ attempts[r] = 2

\* C16: a socket call that parsed a response keeps its connection acquired,
\* out of the idle set, with the response body open, until the status was
\* checked and the body decoded; the one step that hands the connection
\* back is the call's last, it closes the body, and the result of the call
\* (error and destination) is settled before it, whether the call ends on a
\* status error, a decode error or a success.
C16_CleanupLast ==
    /\ [](\A r \in Reqs : client.kind = "socket" =>
            /\ pc[r] \in {"unwrap", "defer"} =>
                 /\ connSt[conn[r]] = "acquired"
                 /\ conn[r] \notin pool.idle
                 /\ ~resp[r].bodyClosed
            /\ pc[r] = "defer" =>
                 /\ err[r] # NotReturned
                 /\ resp[r].status = StatusOK => resp[r].bodyRead
            /\ (pc[r] = "done" /\ resp[r] # NoResp) => resp[r].bodyClosed)
    /\ [][\A r \in Reqs :
            (/\ client.kind = "socket" /\ conn[r] # NoConn
             /\ resp'[r] # NoResp
             /\ connSt'[conn[r]] # "acquired") =>
              /\ pc[r] = "defer" /\ pc'[r] = "done"
              /\ resp'[r].bodyClosed
              /\ err'[r] = err[r]
              /\ dest'[r] = dest[r]]_vars

\* One call has returned the status error of a keep-alive response, its
\* body closed; another has taken over the connection and failed to decode
\* its response, and still holds the connection before its cleanup.
C16_Witness ==
    \E r, q \in Reqs :
      /\ client.kind = "socket"
      /\ pc[r] = "done" /\ resp[r].status = 500 /\ resp[r].bodyClosed
      /\ pc[q] = "defer" /\ err[q] = ErrUnmarshal /\ conn[q] = 1
      /\ connSt[1] = "acquired"

\* The calls holding connection k.
Holders(k) == {r \in Reqs : pc[r] \in Holding /\ conn[r] = k}

\* C17: every acquired connection is held by exactly one call, and a call
\* that is not between its acquisition and its hand-back holds none, so with
\* no call in flight no connection is acquired; a connection leaves the
\* acquired state only in a step in which its holder hands it back, by one
\* release (it joins the idle set, the count stays) or by one removal (the
\* count goes down by one), and a connection that is not acquired is not
\* handed back.
C17_HandBackOnce ==
    /\ [](client.kind = "socket" =>
            /\ \A k \in Acquired : Cardinality(Holders(k)) = 1
            /\ \A r \in Reqs : pc[r] \notin Holding => conn[r] = NoConn
            /\ InFlight = {} => Acquired = {})
    /\ [][client.kind = "socket" =>
            /\ \A r \in Reqs :
                 (pc[r] \in Holding /\ pc'[r] \notin Holding) =>
                   /\ pc'[r] \in {"acquire", "done"}
                   /\ connSt'[conn[r]] \in {"idle", "removed"}
            /\ \A k \in Conns :
                 IF connSt[k] = "acquired" /\ connSt'[k] # "acquired"
                 THEN /\ \E r \in Holders(k) : pc'[r] \notin Holding
                      /\ \/ /\ connSt'[k] = "idle"
                            /\ pool'.idle = pool.idle \cup {k}
                            /\ pool'.total = pool.total
                         \/ /\ connSt'[k] = "removed"
                            /\ pool'.idle = pool.idle
                            /\ pool'.total = pool.total - 1
                 ELSE connSt'[k] \in {connSt[k], "acquired"}]_vars

\* No call is in flight and nothing is acquired, after one call returned
\* the read error and another, whose first write failed, returned after a
\* keep-alive response: two connections are removed and one is idle.
C17_Witness ==
    \E r, q \in Reqs :
      /\ client.kind = "socket"
      /\ InFlight = {} /\ Acquired = {}
      /\ pc[q] = "done" /\ err[q] = ErrRead
      /\ pc[r] = "done" /\ attempts[r] = 2 /\ resp[r].connection = "keep-alive"
      /\ Cardinality(Removed) = 2
      /\ Cardinality(pool.idle) = 1

\* C18: what happens to the connection of a socket call that parsed a
\* response is decided by the Connection header and by nothing else: the
\* flag is the header's equality with keep-alive from the moment the
\* response is there, and in the call's last step a keep-alive response puts
\* the connection into the idle set even when the call returns a status
\* error or a decode error, while a response without keep-alive has it
\* removed even when the call returns success.
C18_ReuseByHeaderOnly ==
    /\ [](\A r \in Reqs :
            (client.kind = "socket" /\ resp[r] # NoResp) =>
              canReuse[r] = (resp[r].connection = "keep-alive"))
    /\ [][\A r \in Reqs :
            (client.kind = "socket" /\ pc[r] = "defer" /\ pc'[r] = "done") =>
              /\ (connSt'[conn[r]] = "idle") = (resp[r].connection = "keep-alive")
              /\ (/\ resp[r].connection = "keep-alive"
                  /\ (resp[r].status # StatusOK \/ err[r] # ErrNone)) =>
                   conn[r] \in pool'.idle
              /\ (/\ resp[r].connection # "keep-alive"
                  /\ resp[r].status = StatusOK /\ err[r] = ErrNone) =>
                   (connSt'[conn[r]] = "removed" /\ conn[r] \notin pool'.idle)
              /\ err'[r] = err[r]]_vars

\* A call returned a decode error after a 200 keep-alive response, and its
\* connection, the only one dialed, was taken from the idle set by another
\* call, which returned success after a 200 response without Connection
\* header, so that the connection is removed.
C18_Witness ==
    \E r, q \in Reqs :
      /\ client.kind = "socket"
      /\ pc[r] = "done" /\ resp[r].status = StatusOK
      /\ resp[r].connection = "keep-alive" /\ err[r] = ErrUnmarshal
      /\ pc[q] = "done" /\ resp[q].status = StatusOK
      /\ resp[q].connection = "" /\ err[q] = ErrNone
      /\ connSt[1] = "removed"
      /\ \A k \in Conns : k # 1 => connSt[k] = "undialed"

(* -------------------- claims about Server.Serve ------------------------ *)

\* C19: once Serve has returned, for whatever reason, the session refresh
\* goroutine it started comes to its end and stays there, so that it makes
\* no NewSession attempt from then on.
C19_RefreshStops ==
    []((mainPc = "returned" /\ rPc # "none") => <>[](rPc = "exited"))

\* The session getSession returns has ended.
StoredEnded == session # NilSession /\ nPc[session] \in {"sending", "done"}

\* C20: getSession returns nil or the session created last; a goroutine
\* about to send on refreshCh finds room in it; the refresh loop goes back
\* to its top only from its select, after a failed NewSession by way of the
\* fired retry timer and otherwise by way of refreshCh, and from the top it
\* clears the session and starts NewSession with no wait between; and while
\* exitCh is open, the end of the stored session leads to the session
\* cleared and a NewSession attempt started.
C20_SessionRefresh ==
    /\ [](getSession \in {NilSession, created})
    /\ [](\A i \in Sessions : nPc[i] = "sending" => refreshCh < RefreshChCap)
    /\ [][/\ (rPc' = "clear" /\ rPc # "clear") => rPc \in {"none", "select"}
          /\ (rPc = "select" /\ rPc' = "clear") =>
               IF sessionErr
               THEN retry = "fired" /\ retry' = "stopped" /\ refreshCh' = refreshCh
               ELSE refreshCh = 1 /\ refreshCh' = 0 /\ retry' = retry
          /\ (rPc' = "new" /\ rPc # "new") =>
               (rPc = "clear" /\ session' = NilSession)]_vars
    /\ ((StoredEnded /\ exitCh = "open")
          ~> ((getSession = NilSession /\ rPc = "new") \/ exitCh = "closed"))

\* The first session ended and was cleared, the NewSession that followed
\* failed, the retry timer fired and the next attempt is under way, exitCh
\* being open.
C20_Witness ==
    /\ exitCh = "open"
    /\ created = 1 /\ nPc[1] = "done"
    /\ getSession = NilSession
    /\ sessionErr /\ retry = "stopped"
    /\ rPc = "new"

====
